---------------------------- MODULE Spec2Model ----------------------------
(***************************************************************************)
(* The crypto context pool of crypto_ctx.c: a list of idle contexts, the   *)
(* counter avail_ctx, the spinlock ctx_lock and the wait queue ctx_wait,   *)
(* used by concurrent workers through the cifsd_crypto_ctx_find_*          *)
(* wrappers and cifsd_release_crypto_ctx.                                  *)
(*                                                                         *)
(* Every worker has a program counter.  A critical section is two steps:   *)
(* taking the spinlock, and the locked test-and-update that ends with the  *)
(* unlock.  Everything a worker does outside the lock (ctx_alloc, the      *)
(* engine handle factory, ctx_free, wait_event, wake_up) is a step of its  *)
(* own, so other workers interleave exactly where the lock lets them.      *)
(***************************************************************************)
EXTENDS Integers, Sequences, FiniteSets

-----------------------------------------------------------------------------
(* Bounds of the model *)

\* workers that call the pool in the general specification
MainWorkers == 3
\* the value num_online_cpus() reports in the general specification
MainCpus == 1
\* the value num_online_cpus() reports in the four-worker scenario
ScenarioCpus == 4
\* workers that call the pool in the specification of the slot cache
SlotWorkers == 2

\* workers, the value of num_online_cpus() and the calls of each worker in
\* the specification of the shutdown: idle and checked-out contexts exist
\* side by side
ShutdownWorkers == 3
ShutdownCpus == 2
ShutdownCalls == 1

\* workers, the value of num_online_cpus() and the calls of each worker in
\* the specification with fair scheduling
LiveWorkers == 3
LiveCpus == 1
LiveCalls == 2

\* workers of the scenario: enough to fill the pool and leave one blocked
ScenarioWorkers == ScenarioCpus + 2
NWorkers == IF ScenarioWorkers > MainWorkers THEN ScenarioWorkers ELSE MainWorkers
Workers == 1..NWorkers
MaxCpus == IF ScenarioCpus > MainCpus THEN ScenarioCpus ELSE MainCpus
\* addresses the allocator can hand out for a context: one more than the
\* pool is expected ever to need, so that an overshoot would be visible
Ctxs == 1..(MaxCpus + 2)

-----------------------------------------------------------------------------
(* The algorithm identifiers (enumerations of crypto_ctx.h, used as array  *)
(* sizes in ctx_free and as the range check of the wrappers)               *)

CRYPTO_SHASH_HMACMD5 == 0
CRYPTO_SHASH_HMACSHA256 == 1
CRYPTO_SHASH_CMACAES == 2
CRYPTO_SHASH_SHA512 == 3
CRYPTO_SHASH_MD4 == 4
CRYPTO_SHASH_MD5 == 5
CRYPTO_SHASH_MAX == 6
CRYPTO_AEAD_AES128_GCM == 0
CRYPTO_AEAD_AES128_CCM == 1
CRYPTO_AEAD_MAX == 2
CRYPTO_BLK_ECBDES == 0
CRYPTO_BLK_MAX == 1

\* the three slot arrays of struct cifsd_crypto_ctx
Families == {"desc", "ccmaes", "blk_desc"}

FamilyMax(fam) ==
    CASE fam = "desc" -> CRYPTO_SHASH_MAX
      [] fam = "ccmaes" -> CRYPTO_AEAD_MAX
      [] fam = "blk_desc" -> CRYPTO_BLK_MAX

NULL == 0
NoReq == <<"none", 0>>

\* A context as cifsd_alloc returns it: zeroed, every slot NULL.
cifsd_alloc ==
    [desc |-> [i \in 0..(CRYPTO_SHASH_MAX - 1) |-> NULL],
     ccmaes |-> [i \in 0..(CRYPTO_AEAD_MAX - 1) |-> NULL],
     blk_desc |-> [i \in 0..(CRYPTO_BLK_MAX - 1) |-> NULL]]

\* The requests of the workers in the general specification: one
\* identifier in range, and for every family the first identifier beyond
\* its enumeration.
Requests ==
    {<<"desc", CRYPTO_SHASH_SHA512>>, <<"desc", CRYPTO_SHASH_MAX>>,
     <<"ccmaes", CRYPTO_AEAD_MAX>>, <<"blk_desc", CRYPTO_BLK_MAX>>}
ScenarioRequests == {<<"desc", CRYPTO_SHASH_SHA512>>}
\* The requests of the workers in the specification of the slot cache: an
\* identifier in range of every family.
SlotRequests ==
    {<<"desc", CRYPTO_SHASH_SHA512>>, <<"ccmaes", CRYPTO_AEAD_AES128_GCM>>,
     <<"blk_desc", CRYPTO_BLK_ECBDES>>}

-----------------------------------------------------------------------------
VARIABLES
    phase,            \* "boot", "running", "failed" (create returned -ENOMEM), "down"
    num_online_cpus,  \* the target bound, fixed for a run
    quota,            \* per worker: acquire calls it may still start (-1: any number)
    woken,            \* per worker: the context whose release woke it from
                      \* wait_event, until it sleeps again, is given a context
                      \* or has tried to allocate one
    ctx_lock,         \* holder of ctx_list.ctx_lock, 0 when free
    avail_ctx,        \* ctx_list.avail_ctx
    idle_ctx,         \* ctx_list.idle_ctx, head first
    alive,            \* contexts allocated and not freed
    mem,              \* the slot arrays of each context
    made,             \* per context lifetime and slot: handles the factory has returned
    tfm_live,         \* engine handles constructed and not freed
    refused,          \* the latest factory call that returned NULL, while its
                      \* context exists: {<<context, slot, slots filled then>>}
    pc,               \* per worker: where it is
    ctx,              \* per worker: its local variable / argument ctx
    seen,             \* per worker constructing a context: avail_ctx as it was
                      \* just before the worker's own increment
    req               \* per worker: <<family, id>> of the wrapper call it is in

vars == <<phase, num_online_cpus, quota, woken, ctx_lock, avail_ctx, idle_ctx, alive,
          mem, made, tfm_live, refused, pc, ctx, seen, req>>

poolVars == <<ctx_lock, avail_ctx, idle_ctx, alive, mem, made, tfm_live, refused>>

\* an engine handle: the n-th one the factory returned for slot <<fam, id>>
\* of the context at address c
Handle(c, fam, id, n) == <<c, fam, id, n>>

SlotIds(fam) == 0..(FamilyMax(fam) - 1)
AllSlots == {s \in Families \X (0..CRYPTO_SHASH_MAX) : s[2] \in SlotIds(s[1])}

\* ctx->desc[id], ctx->ccmaes[id] or ctx->blk_desc[id]
Slot(m, c, fam, id) == IF id \in SlotIds(fam) THEN m[c][fam][id] ELSE NULL

\* the heap: which contexts and handles exist, and what the contexts hold
Heap ==
    [alive |-> alive, mem |-> mem, made |-> made, tfm_live |-> tfm_live,
     refused |-> refused]

SetHeap(h) ==
    /\ alive' = h.alive
    /\ mem' = h.mem
    /\ made' = h.made
    /\ tfm_live' = h.tfm_live
    /\ refused' = h.refused

NoCount == [fam \in Families |-> [i \in SlotIds(fam) |-> 0]]

\* the slots of context c that hold a handle
Filled(m, c) == {s \in AllSlots : m[c][s[1]][s[2]] # NULL}

-----------------------------------------------------------------------------
(* free_shash, free_aead, free_blk: free the handle of a slot, if any *)

\* one loop of ctx_free: the handles of the populated slots of one array
free_family(live, m, c, fam) ==
    live \ {Handle(c, fam, id, m[c][fam][id]) :
                id \in {i \in SlotIds(fam) : m[c][fam][i] # NULL}}

\* ctx_free: the three loops over the slot arrays, then cifsd_free(ctx)
ctx_free(h, c) ==
    [alive |-> h.alive \ {c},
     mem |-> [h.mem EXCEPT ![c] = cifsd_alloc],
     made |-> [h.made EXCEPT ![c] = NoCount],
     refused |-> {r \in h.refused : r[1] # c},
     tfm_live |->
        free_family(free_family(free_family(h.tfm_live, h.mem, c, "desc"),
                                h.mem, c, "ccmaes"),
                    h.mem, c, "blk_desc")]

\* ctx_alloc: the address of a fresh zeroed context; NULL when there is none
ctx_alloc(h) ==
    IF Ctxs \ h.alive = {} THEN NULL
    ELSE CHOOSE c \in Ctxs \ h.alive : \A d \in Ctxs \ h.alive : c <= d

\* the heap after ctx_alloc returned c
ctx_allocated(h, c) ==
    [h EXCEPT !.alive = h.alive \cup {c},
              !.mem = [h.mem EXCEPT ![c] = cifsd_alloc],
              !.made = [h.made EXCEPT ![c] = NoCount]]

-----------------------------------------------------------------------------
(* The engine handle factories.  tfmOk: crypto_alloc_* returned a handle,  *)
(* not an ERR_PTR; memOk: the kzalloc of the descriptor succeeded.         *)
(* Result: handle - a descriptor is returned; tfm - a provider handle is   *)
(* left allocated when the factory returns.                                *)

\* a slip: the IS_ERR test is left out, a descriptor around an error
\* pointer is returned
alloc_shash_desc_unchecked(id, tfmOk, memOk) ==
    IF ~memOk THEN [handle |-> FALSE, tfm |-> FALSE]
    ELSE [handle |-> TRUE, tfm |-> tfmOk]

alloc_shash_desc(id, tfmOk, memOk) ==
    IF ~tfmOk THEN [handle |-> FALSE, tfm |-> FALSE]
    ELSE IF ~memOk THEN [handle |-> FALSE, tfm |-> FALSE]
    ELSE [handle |-> TRUE, tfm |-> TRUE]

alloc_aead(id, tfmOk, memOk) ==
    IF ~tfmOk THEN [handle |-> FALSE, tfm |-> FALSE]
    ELSE [handle |-> TRUE, tfm |-> TRUE]

\* a slip: the provider handle is not freed when the kzalloc fails
alloc_blk_desc_leak(id, tfmOk, memOk) ==
    IF ~tfmOk THEN [handle |-> FALSE, tfm |-> FALSE]
    ELSE IF ~memOk THEN [handle |-> FALSE, tfm |-> TRUE]
    ELSE [handle |-> TRUE, tfm |-> TRUE]

alloc_blk_desc(id, tfmOk, memOk) ==
    IF ~tfmOk THEN [handle |-> FALSE, tfm |-> FALSE]
    ELSE IF ~memOk THEN [handle |-> FALSE, tfm |-> FALSE]
    ELSE [handle |-> TRUE, tfm |-> TRUE]

Factory(fam, id, tfmOk, memOk) ==
    CASE fam = "desc" -> alloc_shash_desc(id, tfmOk, memOk)
      [] fam = "ccmaes" -> alloc_aead(id, tfmOk, memOk)
      [] fam = "blk_desc" -> alloc_blk_desc(id, tfmOk, memOk)

-----------------------------------------------------------------------------
(* The list ctx_list.idle_ctx *)

\* list_entry(ctx_list.idle_ctx.next, ...): the first idle context
list_entry(list) == Head(list)

\* a slip: the entry is handed out and left on the list
list_del_omitted(list) == list

\* list_del(&ctx->list), of the first entry
list_del(list) == Tail(list)

\* a slip: the context is not linked into the list
list_add_dropped(c, list) == list

\* list_add(&ctx->list, &ctx_list.idle_ctx): insertion at the head
list_add(c, list) == <<c>> \o list

-----------------------------------------------------------------------------
InitWith(cpus, q) ==
    /\ phase = "boot"
    /\ num_online_cpus = cpus
    /\ quota = q
    /\ woken = [w \in Workers |-> NULL]
    /\ ctx_lock = 0
    /\ avail_ctx = 0
    /\ idle_ctx = <<>>
    /\ alive = {}
    /\ mem = [c \in Ctxs |-> cifsd_alloc]
    /\ made = [c \in Ctxs |-> NoCount]
    /\ tfm_live = {}
    /\ refused = {}
    /\ pc = [w \in Workers |-> "idle"]
    /\ ctx = [w \in Workers |-> NULL]
    /\ seen = [w \in Workers |-> 0]
    /\ req = [w \in Workers |-> NoReq]

\* the first n workers call the pool as often as they like
Unlimited(n) == [w \in Workers |-> IF w <= n THEN -1 ELSE 0]

Init == InitWith(MainCpus, Unlimited(MainWorkers))

InitSlots == InitWith(MainCpus, Unlimited(SlotWorkers))

InitShutdown ==
    InitWith(ShutdownCpus,
             [w \in Workers |-> IF w <= ShutdownWorkers THEN ShutdownCalls ELSE 0])

\* fair scheduling: every worker acquires at most LiveCalls times
InitLive ==
    InitWith(LiveCpus, [w \in Workers |-> IF w <= LiveWorkers THEN LiveCalls ELSE 0])

\* the scenario: bound 4, every worker acquires at most once
InitScenario ==
    InitWith(ScenarioCpus,
             [w \in Workers |-> IF w <= ScenarioWorkers THEN 1 ELSE 0])

-----------------------------------------------------------------------------
(* cifsd_crypto_create *)

cifsd_crypto_create(allocOk) ==
    /\ phase = "boot"
    /\ ctx_lock' = 0
    /\ avail_ctx' = 1
    /\ LET c == IF allocOk THEN ctx_alloc(Heap) ELSE NULL IN
        IF c = NULL
            THEN /\ phase' = "failed"
                 /\ idle_ctx' = <<>>
                 /\ UNCHANGED <<alive, mem, made, tfm_live, refused>>
            ELSE /\ phase' = "running"
                 /\ idle_ctx' = list_add(c, <<>>)
                 /\ SetHeap(ctx_allocated(Heap, c))
    /\ UNCHANGED <<num_online_cpus, quota, woken, pc, ctx, seen, req>>

-----------------------------------------------------------------------------
(* cifsd_crypto_destroy: frees every idle context; takes no lock, so it is *)
(* run only while no worker is inside the pool's functions.                *)

\* a slip: shutdown frees the contexts that are checked out as well
destroy_loop_everything(h, list) ==
    [alive |-> {},
     mem |-> [c \in Ctxs |-> cifsd_alloc],
     made |-> [c \in Ctxs |-> NoCount],
     tfm_live |-> {},
     refused |-> {}]

RECURSIVE destroy_loop(_, _)
destroy_loop(h, list) ==
    IF list = <<>> THEN h
    ELSE destroy_loop(ctx_free(h, Head(list)), Tail(list))

cifsd_crypto_destroy ==
    /\ phase = "running"
    /\ \A w \in Workers : pc[w] \in {"idle", "holding"}
    /\ phase' = "down"
    /\ idle_ctx' = <<>>
    /\ SetHeap(destroy_loop(Heap, idle_ctx))
    /\ UNCHANGED <<num_online_cpus, quota, woken, ctx_lock, avail_ctx, pc, ctx, seen, req>>

-----------------------------------------------------------------------------
(* The callers *)

\* a worker calls one of the cifsd_crypto_ctx_find_* wrappers
Call(w, r) ==
    /\ phase = "running"
    /\ pc[w] = "idle"
    /\ quota[w] # 0
    /\ quota' = [quota EXCEPT ![w] = IF @ > 0 THEN @ - 1 ELSE @]
    /\ pc' = [pc EXCEPT ![w] = "find_entry"]
    /\ req' = [req EXCEPT ![w] = r]
    /\ UNCHANGED <<phase, num_online_cpus, woken, ctx, seen, poolVars>>

\* a worker calls cifsd_release_crypto_ctx with the context it holds
Release(w) ==
    /\ pc[w] = "holding"
    /\ pc' = [pc EXCEPT ![w] = "rel_entry"]
    /\ UNCHANGED <<phase, num_online_cpus, quota, woken, ctx, seen, req, poolVars>>

\* a worker calls cifsd_release_crypto_ctx(NULL)
ReleaseNull(w) ==
    /\ phase \in {"running", "down"}
    /\ quota[w] # 0
    /\ pc[w] = "idle"
    /\ pc' = [pc EXCEPT ![w] = "rel_entry"]
    /\ ctx' = [ctx EXCEPT ![w] = NULL]
    /\ UNCHANGED <<phase, num_online_cpus, quota, woken, seen, req, poolVars>>

-----------------------------------------------------------------------------
(* ____crypto_shash_ctx_find, ____crypto_aead_ctx_find,                    *)
(* ____crypto_blk_ctx_find: the range check                                *)

\* a slip: the enumeration bound itself is let through
IdRejected_above(fam, id) == id > FamilyMax(fam)

\* if (id >= CRYPTO_*_MAX)
IdRejected(fam, id) == id >= FamilyMax(fam)

crypto_ctx_find_entry(w) ==
    /\ pc[w] = "find_entry"
    /\ IF IdRejected(req[w][1], req[w][2])
        THEN /\ pc' = [pc EXCEPT ![w] = "idle"]
             /\ req' = [req EXCEPT ![w] = NoReq]
        ELSE /\ pc' = [pc EXCEPT ![w] = "find_lock"]
             /\ req' = req
    /\ UNCHANGED <<phase, num_online_cpus, quota, woken, ctx, seen, poolVars>>

-----------------------------------------------------------------------------
(* cifsd_find_crypto_ctx *)

\* spin_lock(&ctx_list.ctx_lock), at the top of the loop and after a failed
\* allocation, and in cifsd_release_crypto_ctx
spin_lock(w, from, to) ==
    /\ pc[w] = from
    /\ ctx_lock = 0
    /\ ctx_lock' = w
    /\ pc' = [pc EXCEPT ![w] = to]
    /\ UNCHANGED <<phase, num_online_cpus, quota, woken, avail_ctx, idle_ctx, alive,
                   mem, made, tfm_live, refused, ctx, seen, req>>

\* a slip: the lock is kept across what follows the critical section
spin_unlock_omitted(w) == ctx_lock

\* spin_unlock(&ctx_list.ctx_lock): the lock is free again
spin_unlock(w) == 0

find_lock(w) == spin_lock(w, "find_lock", "find_locked")

\* a slip: the caller may grow the pool one context further
MustWait_late == avail_ctx > num_online_cpus + 1

\* a slip: the caller waits as soon as the counter reaches the bound
MustWait_early == avail_ctx >= num_online_cpus

\* if (ctx_list.avail_ctx > num_online_cpus())
MustWait == avail_ctx > num_online_cpus

\* the locked part of the loop body, up to and including the unlock
find_locked(w) ==
    /\ pc[w] = "find_locked"
    /\ ctx_lock = w
    /\ ctx_lock' = spin_unlock(w)
    /\ IF idle_ctx # <<>>
        THEN /\ ctx' = [ctx EXCEPT ![w] = list_entry(idle_ctx)]
             /\ idle_ctx' = list_del(idle_ctx)
             /\ pc' = [pc EXCEPT ![w] = "slot_check"]
             /\ UNCHANGED <<avail_ctx, seen>>
        ELSE IF MustWait
            THEN /\ pc' = [pc EXCEPT ![w] = "find_wait"]
                 /\ UNCHANGED <<avail_ctx, idle_ctx, ctx, seen>>
            ELSE /\ avail_ctx' = avail_ctx + 1
                 /\ seen' = [seen EXCEPT ![w] = avail_ctx]
                 /\ pc' = [pc EXCEPT ![w] = "find_alloc"]
                 /\ UNCHANGED <<idle_ctx, ctx>>
    /\ UNCHANGED <<phase, num_online_cpus, quota, woken, alive, mem, made, tfm_live,
                   refused, req>>

\* wait_event(ctx_list.ctx_wait, !list_empty(&ctx_list.idle_ctx)): the
\* condition is tested on entry and after every wake-up
find_wait(w) ==
    /\ pc[w] = "find_wait"
    /\ pc' = [pc EXCEPT ![w] = IF idle_ctx # <<>> THEN "find_lock" ELSE "find_sleep"]
    /\ woken' = [woken EXCEPT ![w] = IF idle_ctx # <<>> THEN @ ELSE NULL]
    /\ UNCHANGED <<phase, num_online_cpus, quota, ctx, seen, req, poolVars>>

\* ctx = ctx_alloc() succeeds: the context is returned to the wrapper
find_alloc_ok(w) ==
    /\ pc[w] = "find_alloc"
    /\ ctx_alloc(Heap) # NULL
    /\ ctx' = [ctx EXCEPT ![w] = ctx_alloc(Heap)]
    /\ SetHeap(ctx_allocated(Heap, ctx_alloc(Heap)))
    /\ pc' = [pc EXCEPT ![w] = "slot_check"]
    /\ seen' = [seen EXCEPT ![w] = 0]
    /\ woken' = [woken EXCEPT ![w] = NULL]
    /\ UNCHANGED <<phase, num_online_cpus, quota, ctx_lock, avail_ctx, idle_ctx, req>>

\* ctx = ctx_alloc() returns NULL
find_alloc_fail(w) ==
    /\ pc[w] = "find_alloc"
    /\ ctx' = [ctx EXCEPT ![w] = NULL]
    /\ pc' = [pc EXCEPT ![w] = "find_fail_lock"]
    /\ woken' = [woken EXCEPT ![w] = NULL]
    /\ UNCHANGED <<phase, num_online_cpus, quota, seen, req, poolVars>>

find_fail_lock(w) == spin_lock(w, "find_fail_lock", "find_fail_locked")

\* a slip: the increment is not taken back
avail_ctx_undo_omitted(n) == n

\* ctx_list.avail_ctx--; after a failed ctx_alloc
avail_ctx_undo(n) == n - 1

\* ctx_list.avail_ctx--; spin_unlock(); then on to the wait_event
find_fail_locked(w) ==
    /\ pc[w] = "find_fail_locked"
    /\ ctx_lock = w
    /\ ctx_lock' = spin_unlock(w)
    /\ avail_ctx' = avail_ctx_undo(avail_ctx)
    /\ seen' = [seen EXCEPT ![w] = 0]
    /\ pc' = [pc EXCEPT ![w] = "find_wait"]
    /\ UNCHANGED <<phase, num_online_cpus, quota, woken, idle_ctx, alive, mem, made,
                   tfm_live, refused, ctx, req>>

-----------------------------------------------------------------------------
(* The wrappers after cifsd_find_crypto_ctx returned *)

\* a slip: the cached handle is ignored
SlotCached_never(m, c, fam, id) == FALSE

\* if (ctx->desc[id]) return ctx;
SlotCached(m, c, fam, id) == Slot(m, c, fam, id) # NULL

slot_check(w) ==
    /\ pc[w] = "slot_check"
    /\ IF SlotCached(mem, ctx[w], req[w][1], req[w][2])
        THEN /\ pc' = [pc EXCEPT ![w] = "holding"]
             /\ req' = [req EXCEPT ![w] = NoReq]
        ELSE /\ pc' = [pc EXCEPT ![w] = "slot_alloc"]
             /\ req' = req
    /\ woken' = [woken EXCEPT ![w] = NULL]
    /\ UNCHANGED <<phase, num_online_cpus, quota, ctx, seen, poolVars>>

\* a slip: the wrapper returns NULL without releasing the context
AfterFactoryFailure_leak == "idle"

\* a slip: the wrapper returns the context although the factory failed
AfterFactoryFailure_kept == "holding"

\* where the wrapper goes when the factory returned NULL:
\* cifsd_release_crypto_ctx(ctx); return NULL;
AfterFactoryFailure == "rel_entry"

\* ctx->desc[id] = alloc_shash_desc(id); if (ctx->desc[id]) return ctx;
\* cifsd_release_crypto_ctx(ctx); return NULL;
slot_alloc(w, tfmOk, memOk) ==
    /\ pc[w] = "slot_alloc"
    /\ LET c == ctx[w]
           fam == req[w][1]
           id == req[w][2]
           r == Factory(fam, id, tfmOk, memOk)
           n == made[c][fam][id] + 1
       IN  /\ mem' = [mem EXCEPT ![c][fam][id] = IF r.handle THEN n ELSE NULL]
           /\ made' = [made EXCEPT ![c][fam][id] = IF r.handle THEN n ELSE @]
           /\ tfm_live' = IF r.tfm THEN tfm_live \cup {Handle(c, fam, id, n)}
                          ELSE tfm_live
           /\ refused' = IF r.handle THEN refused
                         ELSE {<<c, <<fam, id>>, Filled(mem, c)>>}
           /\ IF r.handle
               THEN /\ pc' = [pc EXCEPT ![w] = "holding"]
                    /\ req' = [req EXCEPT ![w] = NoReq]
               ELSE /\ pc' = [pc EXCEPT ![w] = AfterFactoryFailure]
                    /\ req' = req
    /\ UNCHANGED <<phase, num_online_cpus, quota, woken, ctx_lock, avail_ctx, idle_ctx,
                   alive, ctx, seen>>

-----------------------------------------------------------------------------
(* cifsd_release_crypto_ctx *)

\* if (!ctx) return;
rel_entry(w) ==
    /\ pc[w] = "rel_entry"
    /\ IF ctx[w] = NULL
        THEN /\ pc' = [pc EXCEPT ![w] = "idle"]
             /\ req' = [req EXCEPT ![w] = NoReq]
        ELSE /\ pc' = [pc EXCEPT ![w] = "rel_lock"]
             /\ req' = req
    /\ UNCHANGED <<phase, num_online_cpus, quota, woken, ctx, seen, poolVars>>

rel_lock(w) == spin_lock(w, "rel_lock", "rel_locked")

\* a slip: a context is destroyed when the counter equals the bound
MayPool_strict == avail_ctx < num_online_cpus

\* if (ctx_list.avail_ctx <= num_online_cpus())
MayPool == avail_ctx <= num_online_cpus

\* the locked part: list_add and unlock, or decrement and unlock
rel_locked(w) ==
    /\ pc[w] = "rel_locked"
    /\ ctx_lock = w
    /\ ctx_lock' = spin_unlock(w)
    /\ IF MayPool
        THEN /\ idle_ctx' = list_add(ctx[w], idle_ctx)
             /\ pc' = [pc EXCEPT ![w] = "rel_wake"]
             /\ UNCHANGED avail_ctx
        ELSE /\ avail_ctx' = avail_ctx - 1
             /\ pc' = [pc EXCEPT ![w] = "rel_free"]
             /\ UNCHANGED idle_ctx
    /\ UNCHANGED <<phase, num_online_cpus, quota, woken, alive, mem, made, tfm_live,
                   refused, ctx, seen, req>>

\* a slip: only the first of the sleeping workers is made runnable
Woken_first ==
    {v \in Workers :
        /\ pc[v] = "find_sleep"
        /\ \A u \in Workers : pc[u] = "find_sleep" => v <= u}

\* the workers wake_up(&ctx_list.ctx_wait) makes runnable
Woken == {v \in Workers : pc[v] = "find_sleep"}

\* wake_up(&ctx_list.ctx_wait); return;
rel_wake(w) ==
    /\ pc[w] = "rel_wake"
    /\ pc' = [v \in Workers |->
                IF v = w THEN "idle"
                ELSE IF v \in Woken THEN "find_wait"
                ELSE pc[v]]
    /\ woken' = [v \in Workers |-> IF v \in Woken THEN ctx[w] ELSE woken[v]]
    /\ ctx' = [ctx EXCEPT ![w] = NULL]
    /\ req' = [req EXCEPT ![w] = NoReq]
    /\ UNCHANGED <<phase, num_online_cpus, quota, seen, poolVars>>

\* ctx_free(ctx);
rel_free(w) ==
    /\ pc[w] = "rel_free"
    /\ SetHeap(ctx_free(Heap, ctx[w]))
    /\ pc' = [pc EXCEPT ![w] = "idle"]
    /\ ctx' = [ctx EXCEPT ![w] = NULL]
    /\ req' = [req EXCEPT ![w] = NoReq]
    /\ UNCHANGED <<phase, num_online_cpus, quota, woken, ctx_lock, avail_ctx, idle_ctx, seen>>

-----------------------------------------------------------------------------
(* The steps of a worker inside the pool's functions *)

Step(w) ==
    \/ crypto_ctx_find_entry(w)
    \/ find_lock(w)
    \/ find_locked(w)
    \/ find_wait(w)
    \/ find_alloc_ok(w)
    \/ slot_check(w)
    \/ slot_alloc(w, TRUE, TRUE)
    \/ rel_entry(w)
    \/ rel_lock(w)
    \/ rel_locked(w)
    \/ rel_wake(w)
    \/ rel_free(w)

\* the allocator or the provider refuses, and the steps that follow a
\* failed ctx_alloc
Fault(w) ==
    \/ find_alloc_fail(w)
    \/ find_fail_lock(w)
    \/ find_fail_locked(w)
    \/ \E tfmOk, memOk \in BOOLEAN : (~tfmOk \/ ~memOk) /\ slot_alloc(w, tfmOk, memOk)

NextWith(requests) ==
    \/ cifsd_crypto_create(TRUE)
    \/ cifsd_crypto_create(FALSE)
    \/ cifsd_crypto_destroy
    \/ \E w \in Workers :
        \/ \E r \in requests : Call(w, r)
        \/ Release(w)
        \/ ReleaseNull(w)
        \/ Step(w)
        \/ Fault(w)

Next == NextWith(Requests)

Spec == Init /\ [][Next]_vars

\* the specification of the slot cache: fewer workers, every family
NextSlots == NextWith(SlotRequests)

SpecSlots == InitSlots /\ [][NextSlots]_vars

\* the specification of the shutdown: a larger bound, so that a release can
\* pool a context while another is checked out
SpecShutdown == InitShutdown /\ [][Next]_vars

\* Fair scheduling, no faults, no shutdown: every worker that can take a
\* step of one of the pool's functions eventually takes it (a spinning
\* worker gets the lock once the others stop taking it), and every worker
\* that holds a context eventually releases it.
NextLive ==
    \/ cifsd_crypto_create(TRUE)
    \/ \E w \in Workers :
        \/ \E r \in ScenarioRequests : Call(w, r)
        \/ Release(w)
        \/ Step(w)

SpecLive ==
    /\ InitLive
    /\ [][NextLive]_vars
    /\ \A w \in 1..LiveWorkers : WF_vars(Release(w) \/ Step(w))

\* The scenario: no faults, no shutdown, every request is for SHA512.
\* The first ScenarioCpus workers acquire concurrently (the workers are
\* interchangeable, so they enter their calls in the order of their
\* numbers); every later acquire is issued while all earlier callers hold a
\* context or sleep; a release is issued only once every worker has called
\* and no other call is in progress.
Settled(v) == pc[v] \in {"idle", "holding", "find_sleep"}

ScenarioCall(w, r) ==
    /\ \A v \in Workers : v < w => quota[v] = 0
    /\ w > ScenarioCpus =>
        \A v \in Workers : v < w => pc[v] \in {"holding", "find_sleep"}
    /\ Call(w, r)

ScenarioRelease(w) ==
    /\ \A v \in Workers : quota[v] = 0 /\ Settled(v)
    /\ Release(w)

NextScenario ==
    \/ cifsd_crypto_create(TRUE)
    \/ \E w \in Workers :
        \/ \E r \in ScenarioRequests : ScenarioCall(w, r)
        \/ ScenarioRelease(w)
        \/ Step(w)

SpecScenario == InitScenario /\ [][NextScenario]_vars

-----------------------------------------------------------------------------
(* Vocabulary of the properties *)

Range(list) == {list[i] : i \in 1..Len(list)}

\* worker w owns context c: from the return of cifsd_find_crypto_ctx until
\* its release has put c on the idle list or has freed it
OwnerPcs == {"slot_check", "slot_alloc", "holding", "rel_entry", "rel_lock",
             "rel_locked", "rel_free"}
Holds(w, c) == pc[w] \in OwnerPcs /\ ctx[w] = c
CheckedOut == {c \in Ctxs : \E w \in Workers : Holds(w, c)}
Owners == {w \in Workers : pc[w] \in OwnerPcs /\ ctx[w] # NULL}

\* workers between the increment of avail_ctx and the end of ctx_alloc
Constructing == {w \in Workers : pc[w] = "find_alloc"}

\* workers asleep in wait_event
Asleep == {w \in Workers : pc[w] = "find_sleep"}

\* no worker is inside acquire or release
Quiescent == \A w \in Workers : pc[w] \in {"idle", "holding"}

\* worker w is inside a release the wrapper issued after the factory failed
WrapperRelease(w) ==
    /\ pc[w] \in {"rel_entry", "rel_lock", "rel_locked", "rel_wake", "rel_free"}
    /\ req[w] # NoReq

-----------------------------------------------------------------------------
\* C1: under every interleaving of acquires and releases, no context is
\* owned by two workers at once, and no context is at once on the idle list
\* and owned by a worker.
C1_ExclusiveOwnership ==
    /\ \A v, w \in Workers :
        (v # w /\ pc[v] \in OwnerPcs /\ pc[w] \in OwnerPcs /\ ctx[v] # NULL)
            => ctx[v] # ctx[w]
    /\ \A w \in Workers :
        (pc[w] \in OwnerPcs /\ ctx[w] # NULL) => ctx[w] \notin Range(idle_ctx)

\* two workers hold contexts they took from the pool while a third sleeps
C1_Witness ==
    \E v, w \in Workers :
        /\ v # w
        /\ pc[v] = "holding" /\ pc[w] = "holding"
        /\ Asleep # {}

\* C3 as stated: with a fixed bound B, the contexts in existence never
\* number more than B + 1, and neither does avail_ctx.
C3_Original ==
    /\ Cardinality(alive) + Cardinality(Constructing) <= num_online_cpus + 1
    /\ avail_ctx <= num_online_cpus + 1

\* contexts a release has already taken out of the count (avail_ctx--) and
\* is about to hand to ctx_free
BeingFreed == {ctx[w] : w \in {v \in Workers : pc[v] = "rel_free"}}

\* C3, amended: with a fixed bound B, the contexts that are idle, checked
\* out or under construction never number more than B + 1, and neither does
\* avail_ctx; contexts that a release has uncounted and not yet freed exist
\* on top of that.
C3_BoundedGrowth ==
    /\ Cardinality(alive \ BeingFreed) + Cardinality(Constructing)
          <= num_online_cpus + 1
    /\ Len(idle_ctx) + Cardinality(CheckedOut \ BeingFreed)
          + Cardinality(Constructing) <= num_online_cpus + 1
    /\ avail_ctx <= num_online_cpus + 1

\* the pool is at its largest: B + 1 contexts are counted and checked out, a
\* caller waits, and one more context is still on its way to ctx_free
C3_Witness ==
    /\ Cardinality(alive \ BeingFreed) = num_online_cpus + 1
    /\ avail_ctx = num_online_cpus + 1
    /\ BeingFreed # {}

\* C4: at every quiescent point the idle contexts and the checked-out
\* contexts together are exactly the contexts constructed and not destroyed
\* (alive gains a context at each successful ctx_alloc and loses it at its
\* ctx_free), each counted once.
C4_NoLeak ==
    Quiescent =>
        /\ Len(idle_ctx) + Cardinality(Owners) = Cardinality(alive)
        /\ Range(idle_ctx) \cup CheckedOut = alive
        /\ Cardinality(Range(idle_ctx)) = Len(idle_ctx)

\* a quiescent point after the seed context was destroyed: the one context
\* that exists was constructed by an acquire and is checked out
C4_Witness ==
    /\ Quiescent
    /\ phase = "running"
    /\ idle_ctx = <<>>
    /\ Cardinality(Owners) = 1
    /\ alive # {}
    /\ 1 \notin alive

-----------------------------------------------------------------------------
(* The scenario of C2, under SpecScenario: bound B = ScenarioCpus, the     *)
(* workers call in the order of their numbers, all for SHA512.             *)

\* the context cifsd_crypto_create put on the idle list
Seed == CHOOSE c \in Ctxs : \A d \in Ctxs : c <= d

\* worker w has been given a context or is constructing one
Served(w) == pc[w] \in {"find_alloc", "slot_check", "slot_alloc", "holding"}

\* workers whose release has passed its locked decision
Released ==
    {w \in Workers :
        pc[w] \in {"rel_wake", "rel_free"} \/ (quota[w] = 0 /\ pc[w] = "idle")}

NoReleaseYet ==
    \A w \in Workers :
        /\ pc[w] \notin {"rel_entry", "rel_lock", "rel_locked"}
        /\ w \notin Released

Blocked(w) == pc[w] \in {"find_wait", "find_sleep"}

\* the part of C2 about the first B acquires: with no release, none of them
\* blocks; once all B hold a context the counter is B, exactly one of them
\* holds the seed and the others hold B - 1 distinct new contexts
C2_FirstAcquires ==
    NoReleaseYet =>
        /\ \A w \in 1..ScenarioCpus : ~Blocked(w)
        /\ (/\ \A w \in 1..ScenarioCpus : pc[w] = "holding"
            /\ quota[ScenarioCpus + 1] # 0)
            => /\ avail_ctx = ScenarioCpus
               /\ Cardinality({w \in 1..ScenarioCpus : ctx[w] = Seed}) = 1
               /\ Cardinality({ctx[w] : w \in 1..ScenarioCpus}) = ScenarioCpus
               /\ alive = {ctx[w] : w \in 1..ScenarioCpus}

\* C2 as stated: ... and an acquire issued while those B contexts are held
\* blocks: as long as nothing is released, no more than B workers are given
\* or construct a context and the counter stays at B.
C2_Original ==
    /\ C2_FirstAcquires
    /\ NoReleaseYet =>
        /\ Cardinality({w \in Workers : Served(w)}) <= ScenarioCpus
        /\ avail_ctx <= ScenarioCpus

\* C2, amended: ... the acquire issued while those B contexts are held does
\* not block either: it constructs one more context and the counter becomes
\* B + 1.  The acquire after that blocks: it gets no context and starts no
\* construction before a release; the first release destroys its context
\* and lowers the counter to B, and only a later release, which puts its
\* context on the idle list, lets the blocked caller have a context.
C2_Scenario ==
    /\ C2_FirstAcquires
    /\ NoReleaseYet =>
        /\ ~Blocked(ScenarioCpus + 1)
        /\ ~Served(ScenarioCpus + 2)
        /\ (\A w \in 1..(ScenarioCpus + 1) : pc[w] = "holding")
            => /\ avail_ctx = ScenarioCpus + 1
               /\ Cardinality(alive) = ScenarioCpus + 1
    /\ Cardinality(Released) = 1 =>
        /\ avail_ctx = ScenarioCpus
        /\ idle_ctx = <<>>
        /\ ~Served(ScenarioCpus + 2)
    /\ Served(ScenarioCpus + 2) =>
        /\ Cardinality(Released) >= 2
        /\ pc[ScenarioCpus + 2] # "find_alloc"

\* B + 1 workers hold a context, the counter is B + 1, nothing has been
\* released, and the last caller sleeps
C2_Witness ==
    /\ NoReleaseYet
    /\ \A w \in 1..(ScenarioCpus + 1) : pc[w] = "holding"
    /\ avail_ctx = ScenarioCpus + 1
    /\ pc[ScenarioCpus + 2] = "find_sleep"

-----------------------------------------------------------------------------
\* C5 as stated: when the factory fails, the caller still owns the context
\* and it stays checked out until the caller itself releases it; so every
\* release in progress is one a caller issued, none is issued by a wrapper.
C5_Original == \A w \in Workers : ~WrapperRelease(w)

\* C5, amended: when the factory fails, the wrapper itself calls
\* cifsd_release_crypto_ctx on the context (which pools or destroys it) and
\* then returns NULL: the caller is given no context and owns none.
C5_WrapperReleases ==
    /\ [][\A w \in Workers :
            (pc[w] = "slot_alloc" /\ pc'[w] \notin {"slot_alloc", "holding"})
                => /\ pc'[w] = "rel_entry"
                   /\ ctx'[w] = ctx[w]
                   /\ ctx[w] # NULL
                   /\ req'[w] = req[w]
                   /\ Slot(mem', ctx[w], req[w][1], req[w][2]) = NULL]_vars
    /\ [][\A w \in Workers :
            (WrapperRelease(w) /\ pc[w] \in {"rel_wake", "rel_free"}
                /\ pc'[w] # pc[w])
                => /\ pc'[w] = "idle"
                   /\ ctx'[w] = NULL
                   /\ (ctx[w] \notin alive' \/ pc[w] = "rel_wake")]_vars
    /\ [](\A w \in Workers : pc[w] = "holding" =>
            /\ req[w] = NoReq
            /\ ctx[w] \in alive)

\* a wrapper's own release has put the context back on the idle list
C5_Witness ==
    \E w \in Workers :
        /\ WrapperRelease(w)
        /\ pc[w] = "rel_wake"
        /\ ctx[w] \in Range(idle_ctx)

-----------------------------------------------------------------------------
\* C6: release ends the caller's ownership and does one of two things,
\* decided under the lock: with avail_ctx <= bound it puts the context on
\* the idle list, leaves the counter alone and then wakes the waiters; with
\* avail_ctx > bound it decrements the counter by one and then destroys the
\* context without pooling it.  release(NULL) changes nothing of the pool
\* and wakes nobody.
C6_Release ==
    [][\A w \in Workers :
        /\ (pc[w] = "rel_locked" /\ pc'[w] # pc[w]) =>
            IF avail_ctx <= num_online_cpus
                THEN /\ idle_ctx' = <<ctx[w]>> \o idle_ctx
                     /\ avail_ctx' = avail_ctx
                     /\ pc'[w] = "rel_wake"
                ELSE /\ avail_ctx' = avail_ctx - 1
                     /\ idle_ctx' = idle_ctx
                     /\ pc'[w] = "rel_free"
        /\ (pc[w] = "rel_wake" /\ pc'[w] # pc[w]) =>
            /\ \A v \in Asleep : pc'[v] = "find_wait"
            /\ pc'[w] = "idle" /\ ctx'[w] = NULL
            /\ UNCHANGED <<avail_ctx, idle_ctx, alive>>
        /\ (pc[w] = "rel_free" /\ pc'[w] # pc[w]) =>
            /\ ctx[w] \in alive /\ ctx[w] \notin alive'
            /\ ctx[w] \notin Range(idle_ctx')
            /\ pc'[w] = "idle" /\ ctx'[w] = NULL
            /\ UNCHANGED <<avail_ctx, idle_ctx>>
            /\ \A v \in Asleep : pc'[v] = "find_sleep"
        /\ (pc[w] = "rel_entry" /\ ctx[w] = NULL /\ pc'[w] # pc[w]) =>
            /\ pc'[w] = "idle"
            /\ UNCHANGED poolVars
            /\ \A v \in Workers \ {w} : pc'[v] = pc[v]]_vars

\* one release is on its way to ctx_free while another is about to wake the
\* waiters, one of which sleeps
C6_Witness ==
    \E v, w \in Workers :
        /\ pc[v] = "rel_free"
        /\ pc[w] = "rel_wake"
        /\ Asleep # {}

-----------------------------------------------------------------------------
\* C7 as stated: whenever a worker is asleep in acquire's wait, the idle
\* list is empty and avail_ctx is greater than the bound.
C7_Original ==
    \A w \in Asleep : idle_ctx = <<>> /\ avail_ctx > num_online_cpus

\* C7, amended: a caller goes from the counter check to the wait only when
\* it saw, under the lock, the idle list empty and avail_ctx greater than
\* the bound; it falls asleep only when the idle list is empty; and while a
\* worker is asleep the idle list is empty or a release is about to call
\* wake_up.  (The counter need not stay above the bound while it sleeps: a
\* release that destroys its context lowers the counter and wakes nobody.)
C7_BlockedOnlyWhenEmpty ==
    /\ [][\A w \in Workers :
            /\ (pc[w] = "find_locked" /\ pc'[w] = "find_wait")
                => (idle_ctx = <<>> /\ avail_ctx > num_online_cpus)
            /\ (pc[w] # "find_sleep" /\ pc'[w] = "find_sleep")
                => idle_ctx = <<>>]_vars
    /\ []((Asleep # {} /\ idle_ctx # <<>>)
            => \E v \in Workers : pc[v] = "rel_wake")

\* a worker sleeps although the counter is back within the bound: a
\* destroy-path release lowered it and woke nobody
C7_Witness ==
    /\ Asleep # {}
    /\ idle_ctx = <<>>
    /\ avail_ctx <= num_online_cpus
    /\ \A w \in Workers : pc[w] \notin {"find_fail_lock", "find_fail_locked"}

-----------------------------------------------------------------------------
\* what C8 has in common as stated and as amended: cifsd_find_crypto_ctx
\* returns only a valid context; a failed ctx_alloc returns nothing to the
\* caller, who then waits and goes back to the idle-list check only once
\* the idle list is not empty
C8_NotPropagated ==
    /\ [](\A w \in Workers :
            pc[w] \in {"slot_check", "slot_alloc", "holding"}
                => (ctx[w] # NULL /\ ctx[w] \in alive))
    /\ [][\A w \in Workers :
            /\ (pc[w] = "find_alloc" /\ pc'[w] # pc[w] /\ ctx'[w] = NULL)
                => pc'[w] = "find_fail_lock"
            /\ (pc[w] = "find_fail_locked" /\ pc'[w] # pc[w])
                => pc'[w] = "find_wait"
            /\ (pc[w] = "find_wait" /\ pc'[w] # pc[w])
                => IF idle_ctx # <<>> THEN pc'[w] = "find_lock"
                   ELSE pc'[w] = "find_sleep"
            /\ (pc[w] = "find_sleep" /\ pc'[w] # pc[w])
                => pc'[w] = "find_wait"]_vars

\* C8 as stated: ... and on allocation failure the counter is decremented
\* back to the value it had before the optimistic increment.
C8_Original ==
    /\ C8_NotPropagated
    /\ [][\A w \in Workers :
            (pc[w] = "find_fail_locked" /\ pc'[w] # pc[w])
                => avail_ctx' = seen[w]]_vars

\* C8, amended: ... and on allocation failure the counter is decremented by
\* exactly one, which cancels the caller's own increment (the result is the
\* value before the increment only when no other worker changed the counter
\* in between).
C8_AllocFailureHandled ==
    /\ C8_NotPropagated
    /\ [][\A w \in Workers :
            (pc[w] = "find_fail_locked" /\ pc'[w] # pc[w])
                => avail_ctx' = avail_ctx - 1]_vars

\* a worker whose allocation failed is about to take its increment back
\* after another worker has changed the counter
C8_Witness ==
    \E w \in Workers :
        /\ pc[w] = "find_fail_locked"
        /\ avail_ctx - 1 # seen[w]

-----------------------------------------------------------------------------
\* C9: a wrapper call with an identifier at or beyond its family's
\* enumeration bound returns failure at once and leaves the pool untouched:
\* idle list, counter, lock, contexts and their slots, and every other
\* worker (the waiters included) are unchanged.
C9_OutOfRangeRejected ==
    [][\A w \in Workers :
        (/\ pc[w] = "find_entry"
         /\ req[w][2] >= FamilyMax(req[w][1])
         /\ pc'[w] # pc[w])
            => /\ pc'[w] = "idle"
               /\ ctx'[w] = NULL
               /\ UNCHANGED poolVars
               /\ \A v \in Workers \ {w} : pc'[v] = pc[v]]_vars

\* an out-of-range call arrives while the pool is exhausted and a caller
\* sleeps
C9_Witness ==
    \E w \in Workers :
        /\ pc[w] = "find_entry"
        /\ req[w][2] >= FamilyMax(req[w][1])
        /\ Asleep # {}

-----------------------------------------------------------------------------
\* C10: once the factory has returned a handle for (context, id), that slot
\* keeps that handle for the life of the context, across releases and
\* re-acquisitions; the factory is not invoked again for it, so it succeeds
\* at most once per (context, id).
C10_SlotIdempotent ==
    /\ \A c \in Ctxs : \A s \in AllSlots :
        /\ made[c][s[1]][s[2]] <= 1
        /\ mem[c][s[1]][s[2]] = made[c][s[1]][s[2]]
    /\ \A w \in Workers :
        pc[w] = "slot_alloc" =>
            /\ mem[ctx[w]][req[w][1]][req[w][2]] = NULL
            /\ made[ctx[w]][req[w][1]][req[w][2]] = 0

\* a worker has re-acquired a context whose slot for the requested id was
\* filled during an earlier acquisition
C10_Witness ==
    \E w \in Workers :
        /\ pc[w] = "slot_check"
        /\ Slot(mem, ctx[w], req[w][1], req[w][2]) # NULL

-----------------------------------------------------------------------------
\* worker w leaves the factory call with a failure
FactoryFailed(w) == pc[w] = "slot_alloc" /\ pc'[w] \notin {"slot_alloc", "holding"}

\* every slot of a live context is empty or holds a constructed handle that
\* was made for that very slot
SlotsWellFormed ==
    \A c \in alive : \A s \in AllSlots :
        \/ mem[c][s[1]][s[2]] = NULL
        \/ Handle(c, s[1], s[2], mem[c][s[1]][s[2]]) \in tfm_live

\* what C11 has in common as stated and as amended: when the factory
\* returns NULL the requested slot stays empty, every slot of the context
\* keeps its content and the context is still a live context of the worker;
\* a factory call that returns a handle caches it in the requested slot and
\* changes no other slot; every slot is empty or holds a constructed handle
\* for its own identifier.
C11_SlotsKept ==
    /\ [][\A w \in Workers :
            /\ FactoryFailed(w) =>
                /\ Slot(mem', ctx[w], req[w][1], req[w][2]) = NULL
                /\ mem'[ctx[w]] = mem[ctx[w]]
                /\ ctx[w] \in alive' /\ ctx'[w] = ctx[w]
                /\ ctx[w] \notin Range(idle_ctx')
                /\ tfm_live' = tfm_live
            /\ (pc[w] = "slot_alloc" /\ pc'[w] = "holding") =>
                /\ Slot(mem', ctx[w], req[w][1], req[w][2]) # NULL
                /\ \A s \in AllSlots \ {req[w]} :
                    mem'[ctx[w]][s[1]][s[2]] = mem[ctx[w]][s[1]][s[2]]]_vars
    /\ []SlotsWellFormed

\* C11 as stated: ... and the context remains a valid member of the pool's
\* population: when the call that met the failure returns, the context
\* still exists.
C11_Original ==
    /\ C11_SlotsKept
    /\ [][\A w \in Workers :
            (WrapperRelease(w) /\ pc'[w] = "idle") => ctx[w] \in alive']_vars

\* C11, amended: ... and the context remains valid until the wrapper's own
\* release has decided: with avail_ctx <= bound it goes back to the idle
\* list with its slots as they were, and a later call for another
\* identifier that is given this context can fill and cache that slot; with
\* avail_ctx > bound the release destroys the context.
C11_FactoryFailure ==
    /\ C11_SlotsKept
    /\ [][\A w \in Workers :
            (WrapperRelease(w) /\ pc[w] = "rel_locked" /\ pc'[w] # pc[w]) =>
                IF avail_ctx <= num_online_cpus
                    THEN /\ ctx[w] \in Range(idle_ctx')
                         /\ ctx[w] \in alive'
                         /\ mem'[ctx[w]] = mem[ctx[w]]
                    ELSE pc'[w] = "rel_free"]_vars
    /\ [][\A w \in Workers :
            (WrapperRelease(w) /\ pc[w] = "rel_free" /\ pc'[w] # pc[w])
                => ctx[w] \notin alive']_vars

\* a worker holds a context on which the factory once refused a slot; that
\* slot is empty, and a slot that was empty at the refusal has been filled
\* since
C11_Witness ==
    \E w \in Workers :
        /\ pc[w] = "holding"
        /\ \E r \in refused :
            /\ r[1] = ctx[w]
            /\ Slot(mem, ctx[w], r[2][1], r[2][2]) = NULL
            /\ \E s \in Filled(mem, ctx[w]) \ r[3] : s # r[2]

-----------------------------------------------------------------------------
\* C12: cifsd_crypto_create, when it succeeds (returns 0: phase "running"),
\* leaves avail_ctx = 1 and an idle list of exactly one context, freshly
\* allocated and with every slot empty; when the seed context cannot be
\* allocated it returns -ENOMEM (phase "failed") and the idle list is empty.
C12_Initialize ==
    /\ [][(phase = "boot" /\ phase' # "boot") =>
            \/ /\ phase' = "running"
               /\ avail_ctx' = 1
               /\ Len(idle_ctx') = 1
               /\ idle_ctx'[1] \notin alive
               /\ alive' = {idle_ctx'[1]}
               /\ mem'[idle_ctx'[1]] = cifsd_alloc
               /\ tfm_live' = {}
               /\ ctx_lock' = 0
            \/ /\ phase' = "failed"
               /\ idle_ctx' = <<>>
               /\ alive' = {}]_vars
    /\ [](phase = "failed" => (idle_ctx = <<>> /\ alive = {}))
    /\ [](phase = "boot" => (idle_ctx = <<>> /\ alive = {}))

\* the pool right after a successful cifsd_crypto_create: the seed context
\* is idle, nothing else exists and no worker has called yet
C12_Witness ==
    /\ phase = "running"
    /\ avail_ctx = 1
    /\ idle_ctx = <<Seed>>
    /\ alive = {Seed}
    /\ mem[Seed] = cifsd_alloc
    /\ \A w \in Workers : pc[w] = "idle" /\ ctx[w] = NULL

-----------------------------------------------------------------------------
\* the engine handles stored in the slots of context c
HandlesOf(m, c) == {Handle(c, s[1], s[2], m[c][s[1]][s[2]]) : s \in Filled(m, c)}

\* C13: cifsd_crypto_destroy removes and frees every context of the idle
\* list, with its handles, and leaves the list empty; every checked-out
\* context stays allocated, with its slots and handles as they were, and
\* with the worker that holds it; avail_ctx is not changed.
C13_Shutdown ==
    [][(phase = "running" /\ phase' = "down") =>
        /\ idle_ctx' = <<>>
        /\ alive' = alive \ Range(idle_ctx)
        /\ \A c \in Range(idle_ctx) : HandlesOf(mem, c) \cap tfm_live' = {}
        /\ \A w \in Workers : pc'[w] = pc[w] /\ ctx'[w] = ctx[w]
        /\ \A c \in CheckedOut :
            /\ c \in alive'
            /\ mem'[c] = mem[c]
            /\ HandlesOf(mem, c) \subseteq tfm_live'
        /\ avail_ctx' = avail_ctx]_vars

\* after a shutdown that freed an idle context (the counter still counts
\* it), a worker holds a context with a handle in one of its slots
C13_Witness ==
    /\ phase = "down"
    /\ Quiescent
    /\ idle_ctx = <<>>
    /\ avail_ctx > Cardinality(alive)
    /\ \E w \in Workers :
        /\ pc[w] = "holding"
        /\ ctx[w] \in alive
        /\ HandlesOf(mem, ctx[w]) # {}
        /\ HandlesOf(mem, ctx[w]) \subseteq tfm_live

-----------------------------------------------------------------------------
\* C14 as stated: with a fixed bound B, whenever some caller has
\* incremented the counter and is constructing a context, avail_ctx is at
\* most B.
C14_Original == Constructing # {} => avail_ctx <= num_online_cpus

\* C14, amended: a caller increments the counter only when it found, under
\* the lock, the idle list empty and avail_ctx at most B; so the value just
\* before the increment of every caller that is constructing was at most B,
\* and while some caller is constructing avail_ctx is at most B + 1.
C14_ConstructingBound ==
    /\ [](Constructing # {} => avail_ctx <= num_online_cpus + 1)
    /\ [](\A w \in Constructing : seen[w] <= num_online_cpus)
    /\ [][\A w \in Workers :
            (pc[w] = "find_locked" /\ pc'[w] = "find_alloc") =>
                /\ idle_ctx = <<>>
                /\ avail_ctx <= num_online_cpus
                /\ avail_ctx' = avail_ctx + 1]_vars

\* a caller is constructing a context and the counter is above the bound
C14_Witness ==
    /\ Constructing # {}
    /\ avail_ctx = num_online_cpus + 1

-----------------------------------------------------------------------------
\* workers v and w were woken by the release of the same context, v has
\* been given that context and w is constructing a new one
LoserConstructs(v, w) ==
    /\ v # w
    /\ woken[v] # NULL /\ woken[w] = woken[v]
    /\ pc[v] = "slot_check" /\ ctx[v] = woken[v]
    /\ pc[w] = "find_alloc"

\* C15 as stated: when one release wakes several blocked acquirers, one of
\* them obtains the released context and every other one blocks again:
\* none of the losers proceeds to construct a new context.
C15_Original == \A v, w \in Workers : ~LoserConstructs(v, w)

\* C15, amended: wake_up makes every sleeping acquirer runnable; a woken
\* acquirer first re-tests the idle list without the lock (wait_event) and
\* sleeps again if it is empty, otherwise it re-checks under the lock; at
\* most one worker obtains the released context; a woken acquirer that
\* finds the idle list empty under the lock blocks again only if avail_ctx
\* is greater than the bound, and otherwise increments the counter and
\* constructs a new context.
C15_WakeUp ==
    /\ [][\A u \in Workers :
            (pc[u] = "rel_wake" /\ pc'[u] # pc[u]) =>
                \A v \in Asleep : pc'[v] = "find_wait" /\ woken'[v] = ctx[u]]_vars
    /\ [][\A w \in Workers :
            (woken[w] # NULL /\ pc[w] = "find_wait" /\ pc'[w] # pc[w]) =>
                IF idle_ctx = <<>> THEN pc'[w] = "find_sleep"
                ELSE pc'[w] = "find_lock"]_vars
    /\ [][\A w \in Workers :
            (woken[w] # NULL /\ pc[w] = "find_locked" /\ pc'[w] # pc[w]) =>
                /\ ctx_lock = w
                /\ IF idle_ctx # <<>>
                    THEN /\ pc'[w] = "slot_check"
                         /\ ctx'[w] = Head(idle_ctx)
                         /\ ctx'[w] \notin Range(idle_ctx')
                    ELSE IF avail_ctx > num_online_cpus
                        THEN pc'[w] = "find_wait" /\ avail_ctx' = avail_ctx
                        ELSE pc'[w] = "find_alloc" /\ avail_ctx' = avail_ctx + 1]_vars
    /\ [](\A v, w \in Workers :
            (v # w /\ pc[v] = "slot_check" /\ pc[w] = "slot_check"
                /\ woken[v] # NULL /\ ctx[v] = woken[v])
                => ctx[w] # ctx[v])

\* one release woke two acquirers: one of them has the released context,
\* the other found the idle list empty and the counter within the bound,
\* and constructs a new context
C15_Witness == \E v, w \in Workers : LoserConstructs(v, w)

-----------------------------------------------------------------------------
\* where a worker is between spin_lock and spin_unlock
LockedPcs == {"find_locked", "find_fail_locked", "rel_locked"}

\* where a worker constructs or destroys a context or an engine handle, or
\* is in wait_event
UnlockedPcs == {"find_alloc", "slot_alloc", "rel_free", "find_wait", "find_sleep"}

\* C16: a worker that is executing ctx_alloc, ctx_free or one of the
\* factories, or that is in the wait, does not hold ctx_lock; the lock is
\* held only by a worker in one of the test-and-update sections of
\* cifsd_find_crypto_ctx and cifsd_release_crypto_ctx, and construction and
\* destruction steps leave the lock alone.
C16_LockScope ==
    /\ [](\A w \in Workers : pc[w] \in UnlockedPcs => ctx_lock # w)
    /\ [](\A w \in Workers : ctx_lock = w <=> pc[w] \in LockedPcs)
    /\ [][(alive' # alive \/ tfm_live' # tfm_live) =>
            /\ ctx_lock' = ctx_lock \/ phase = "boot"
            /\ \A w \in Workers : pc'[w] # pc[w] => ctx_lock # w]_vars

\* one worker is inside a critical section while a second constructs a
\* context and a third is about to free one
C16_Witness ==
    \E u, v, w \in Workers :
        /\ ctx_lock = u /\ pc[u] \in LockedPcs
        /\ pc[v] = "find_alloc"
        /\ pc[w] = "rel_free"

-----------------------------------------------------------------------------
\* C17: the engine handles constructed and not freed are exactly the
\* handles stored in the slots of the live contexts, each in the slot it
\* was made for; a factory call that fails, whether at the provider or at
\* the allocation of the descriptor, leaves no handle behind; and when a
\* context is freed, the handles of all its populated slots, in every
\* family, are freed with it and no other handle is.
C17_NoHandleLeak ==
    /\ [](tfm_live = UNION {HandlesOf(mem, c) : c \in alive})
    /\ [](\A c \in Ctxs \ alive : Filled(mem, c) = {})
    /\ [][\A w \in Workers : FactoryFailed(w) => tfm_live' = tfm_live]_vars
    /\ [][tfm_live' =
            tfm_live \ UNION {HandlesOf(mem, c) : c \in alive \ alive'}
            \/ \E w \in Workers : pc[w] = "slot_alloc" /\ pc'[w] = "holding"]_vars

\* a context with handles in slots of two families is about to be freed
C17_Witness ==
    \E w \in Workers :
        /\ pc[w] = "rel_free"
        /\ \E s, t \in Filled(mem, ctx[w]) : s[1] # t[1]
        /\ HandlesOf(mem, ctx[w]) \subseteq tfm_live

-----------------------------------------------------------------------------
\* workers whose ctx_alloc failed and whose increment is not yet taken back
Undoing == {w \in Workers : pc[w] \in {"find_fail_lock", "find_fail_locked"}}

\* C18 as stated: between cifsd_crypto_create and cifsd_crypto_destroy,
\* whenever the lock is free, avail_ctx is the number of contexts in
\* existence, idle or checked out, plus the number of acquirers that have
\* incremented the counter and not yet finished their attempt (their
\* decrement after a failure included).
C18_Original ==
    (phase = "running" /\ ctx_lock = 0) =>
        /\ avail_ctx = Len(idle_ctx) + Cardinality(CheckedOut)
                          + Cardinality(Constructing \cup Undoing)
        /\ avail_ctx = Cardinality(alive) + Cardinality(Constructing \cup Undoing)

\* C18, amended: ... avail_ctx is the number of contexts that are idle or
\* checked out, not counting those a release has already subtracted and is
\* about to free, plus the number of acquirers that have incremented the
\* counter and have neither got their context nor taken the increment back
\* after a failed allocation; the counter is never negative, and a release
\* that destroys its context decrements the counter exactly once, before
\* ctx_free.
C18_CounterAccounting ==
    /\ [](phase = "running" =>
            /\ avail_ctx = Len(idle_ctx) + Cardinality(CheckedOut \ BeingFreed)
                              + Cardinality(Constructing \cup Undoing)
            /\ avail_ctx = Cardinality(alive \ BeingFreed)
                              + Cardinality(Constructing \cup Undoing))
    /\ [](avail_ctx >= 0)
    /\ [][\A w \in Workers :
            /\ (pc[w] = "rel_locked" /\ pc'[w] = "rel_free")
                => avail_ctx' = avail_ctx - 1
            /\ (pc[w] = "rel_free" /\ pc'[w] # pc[w])
                => /\ avail_ctx' = avail_ctx
                   /\ alive' = alive \ {ctx[w]}
                   /\ ctx[w] \in alive
            /\ (pc[w] = "rel_locked" /\ pc'[w] = "rel_wake")
                => avail_ctx' = avail_ctx /\ alive' = alive]_vars

\* the lock is free, one release has decremented the counter and not yet
\* freed its context, and an acquirer is constructing a context
C18_Witness ==
    /\ phase = "running"
    /\ ctx_lock = 0
    /\ BeingFreed # {}
    /\ Constructing # {}
    /\ avail_ctx = Cardinality(alive)

-----------------------------------------------------------------------------
\* worker w is inside one of the cifsd_crypto_ctx_find_* wrappers
InAcquire(w) ==
    pc[w] \in {"find_entry", "find_lock", "find_locked", "find_wait", "find_sleep",
               "find_alloc", "slot_check", "slot_alloc"}

\* some acquirer is asleep while no context is idle, checked out or under
\* construction
Stuck ==
    /\ Asleep # {}
    /\ idle_ctx = <<>>
    /\ CheckedOut = {}
    /\ Constructing = {}

\* C19: when ctx_alloc never fails, the bound is fixed and at least 1, and
\* every worker releases the context it holds, no acquirer is ever asleep
\* while no context is idle, checked out or under construction; and with
\* finitely many calls per worker and fair scheduling every acquire
\* returns a context.
C19_NoStuck ==
    /\ []~Stuck
    /\ [](avail_ctx >= 1 \/ phase = "boot")
    /\ \A w \in 1..LiveWorkers : InAcquire(w) ~> pc[w] = "holding"

\* an acquirer sleeps, the only context left is checked out, and the
\* counter is within the bound again because an earlier release destroyed
\* its context without waking anybody
C19_Witness ==
    /\ Asleep # {}
    /\ idle_ctx = <<>>
    /\ avail_ctx <= num_online_cpus
    /\ Cardinality(CheckedOut) = 1
    /\ \A w \in Workers : pc[w] \in {"idle", "holding", "find_sleep"}

-----------------------------------------------------------------------------
\* C20: also when ctx_alloc inside cifsd_find_crypto_ctx may fail, no state
\* is reachable in which an acquirer is asleep while no context is idle,
\* checked out or under construction (so that every acquirer that blocks,
\* one that blocked after its own failed allocation included, is woken by
\* a release).
C20_Original ==
    \A w \in Asleep :
        \/ idle_ctx # <<>>
        \/ CheckedOut # {}
        \/ Constructing # {}

=============================================================================
